---- MODULE Spec2Model ----
(***************************************************************************)
(* 4FORE League: the four edge-function request handlers                   *)
(* (create-setup-intent, create-subscription, create-portal-session,       *)
(* send-email) and the two browser-side wrappers of auth.js that call      *)
(* them.  One handler invocation is a process: its synchronous prologue    *)
(* is one step, and every awaited upstream call splits it into the step    *)
(* that issues the call and the step that resumes with the call's result.  *)
(***************************************************************************)
EXTENDS Integers, Sequences, FiniteSets, TLC

VARIABLES
    STRIPE_SECRET_KEY,  \* module constant of the three Stripe functions ("" when unset)
    RESEND_API_KEY,     \* module constant of send-email ("" when unset)
    handler,            \* the function serving the current request
    req,                \* the current request: [method, body]
    pc,                 \* where the invocation stands
    calls,              \* upstream calls issued by this invocation, in order
    results,            \* upstream results this invocation resumed with, in order
    customer,           \* create-setup-intent's local `customer`
    outcome,            \* "pending" | "response" | "escaped"
    resp,               \* the Response the handler returned
    caller,             \* "direct" | "createSetupIntent" | "sendEmail"
    wrapperResult,      \* what the browser wrapper gave its caller
    location,           \* window.location of the browsing context
    navigations,        \* values the running guard assigned to window.location.href
    guard,              \* the navigation guard called: [name, redirectTo, from, settled]
    gpc,                \* where the guard stands: "idle" | "await_session" | "done"
    guardResult         \* what the guard gave its caller

handlerVars == <<STRIPE_SECRET_KEY, RESEND_API_KEY, handler, req, pc, calls, results,
                 customer, outcome, resp, caller, wrapperResult>>

authVars == <<location, navigations, guard, gpc, guardResult>>

vars == <<STRIPE_SECRET_KEY, RESEND_API_KEY, handler, req, pc, calls, results,
          customer, outcome, resp, caller, wrapperResult,
          location, navigations, guard, gpc, guardResult>>

\* Bound of the model: longest payment-method listing the upstream returns.
MaxListing == 2

---------------------------------------------------------------------------
\* JavaScript values.  Every scalar is a string; Undefined stands for a
\* missing property / the value undefined.

Undefined == "<undefined>"

\* !v for a string-or-undefined value
Falsy(v) == v \in {Undefined, ""}

\* v ?? d
Coalesce(v, d) == IF v = Undefined THEN d ELSE v

\* String(v), as URLSearchParams applies it to every parameter value
Str(v) == IF v = Undefined THEN "undefined" ELSE v

Vals(v) == {Undefined, "", v}

Methods == {"OPTIONS", "POST", "GET"}

Handlers == {"create-setup-intent", "create-subscription",
             "create-portal-session", "send-email"}

---------------------------------------------------------------------------
\* Response Envelope Helper

CORS_HEADERS ==
    { <<"Access-Control-Allow-Origin", "*">>,
      <<"Access-Control-Allow-Headers", "authorization, x-client-info, apikey, content-type">>,
      <<"Access-Control-Allow-Methods", "POST, OPTIONS">> }

\* JSON.stringify of an object literal, given as its set of <<key, value>>
\* pairs: a key whose value is undefined is left out.
Stringify(data) == { p \in data : p[2] # Undefined }

json(data, status) ==
    [ status  |-> status,
      body    |-> [isNull |-> FALSE, json |-> Stringify(data)],
      headers |-> CORS_HEADERS \cup { <<"Content-Type", "application/json">> } ]

\* Mutant of Preflight: the pre-flight answered through the JSON envelope.
Preflight_AsJson ==
    [ status  |-> 204,
      body    |-> [isNull |-> FALSE, json |-> {}],
      headers |-> CORS_HEADERS \cup { <<"Content-Type", "application/json">> } ]

\* new Response(null, { status: 204, headers: CORS_HEADERS })
Preflight ==
    [ status  |-> 204,
      body    |-> [isNull |-> TRUE, json |-> {}],
      headers |-> CORS_HEADERS ]

NoResponse == [ status |-> 0, body |-> [isNull |-> TRUE, json |-> {}], headers |-> {} ]

MethodNotAllowed == json({ <<"error", "Method not allowed">> }, 405)

ServerConfigurationError == json({ <<"error", "Server configuration error">> }, 500)

InvalidJSONBody == json({ <<"error", "Invalid JSON body">> }, 400)

\* Mutant of InternalServerError: the catch block echoes err.message.
InternalServerError_Leaks == json({ <<"error", "fetch failed">> }, 500)

\* catch (err) { console.error(...); return json({ error: 'Internal server error' }, 500) }
InternalServerError == json({ <<"error", "Internal server error">> }, 500)

---------------------------------------------------------------------------
\* What one step of a handler does: return a Response, let an exception
\* escape to the hosting runtime, or issue an upstream call and await it.

NoCall == [ endpoint |-> "", method |-> "", params |-> {} ]

Return(r) == [ kind |-> "return", resp |-> r, call |-> NoCall, next |-> "done" ]

Throw == [ kind |-> "throw", resp |-> NoResponse, call |-> NoCall, next |-> "done" ]

Await(c, next) == [ kind |-> "await", resp |-> NoResponse, call |-> c, next |-> next ]

\* stripePost(path, params): one POST, form-encoded by URLSearchParams
stripePost(path, params) ==
    [ endpoint |-> path, method |-> "POST",
      params   |-> { <<p[1], Str(p[2])>> : p \in params } ]

\* stripeGet(path): one GET; the path carries the arguments
stripeGet(path, args) ==
    [ endpoint |-> path, method |-> "GET",
      params   |-> { <<p[1], Str(p[2])>> : p \in args } ]

---------------------------------------------------------------------------
\* Upstream results.  kind "throw": fetch or res.json() rejected (network
\* failure, non-JSON body).  kind "null": the body parsed to JSON null.
\* kind "object": a mapping, whose `error` property is present or not.

NoError == [ present |-> FALSE, message |-> Undefined ]

Errors == { [ present |-> TRUE, message |-> m ] : m \in {Undefined, "upstream says no"} }

---------------------------------------------------------------------------
\* Request bodies.  kind "unparseable": req.json() rejects.  kind "null":
\* the body is the JSON text null.  kind "primitive": a JSON number, string,
\* boolean or array, whose destructured properties are all undefined.
\* kind "object": a JSON object with the properties in obj.

NonObjectKinds == {"unparseable", "null", "primitive"}

SetupIntentNoFields == [ email |-> Undefined, userId |-> Undefined ]

SetupIntentBodies ==
    { [ kind |-> k, obj |-> SetupIntentNoFields ] : k \in NonObjectKinds }
    \cup { [ kind |-> "object", obj |-> [ email |-> e, userId |-> u ] ] :
             e \in Vals("a@b.com"), u \in Vals("uid_1") }

SubscriptionNoFields == [ customerId |-> Undefined, priceId |-> Undefined ]

SubscriptionBodies ==
    { [ kind |-> k, obj |-> SubscriptionNoFields ] : k \in NonObjectKinds }
    \cup { [ kind |-> "object", obj |-> [ customerId |-> c, priceId |-> p ] ] :
             c \in Vals("cus_9"), p \in Vals("price_1") }

PortalNoFields == [ customerId |-> Undefined, returnUrl |-> Undefined ]

PortalBodies ==
    { [ kind |-> k, obj |-> PortalNoFields ] : k \in NonObjectKinds }
    \cup { [ kind |-> "object", obj |-> [ customerId |-> c, returnUrl |-> u ] ] :
             c \in Vals("cus_9"), u \in Vals("https://app/account") }

\* The `data` property of a send-email body: absent, null, or an object
\* with or without a name.
NoData == [ kind |-> "undefined", name |-> Undefined ]

DataValues ==
    { NoData, [ kind |-> "null", name |-> Undefined ] }
    \cup { [ kind |-> "object", name |-> n ] : n \in {Undefined, "Pat"} }

EmailTypes == {"welcome", "password-reset", "trial-expiry-7", "trial-expiry-3",
               "trial-expiry-1"}

EmailNoFields == [ type |-> Undefined, to |-> Undefined, data |-> NoData ]

EmailBodies ==
    { [ kind |-> k, obj |-> EmailNoFields ] : k \in NonObjectKinds }
    \cup { [ kind |-> "object", obj |-> [ type |-> t, to |-> a, data |-> d ] ] :
             t \in {Undefined, "", "unknown-type"} \cup EmailTypes,
             a \in {Undefined, "a@b.com"},
             d \in DataValues }

Bodies(h) ==
    CASE h = "create-setup-intent"   -> SetupIntentBodies
      [] h = "create-subscription"   -> SubscriptionBodies
      [] h = "create-portal-session" -> PortalBodies
      [] h = "send-email"            -> EmailBodies

---------------------------------------------------------------------------
\* create-setup-intent

CustomerResults ==
    { [ kind |-> k, error |-> NoError, id |-> Undefined ] : k \in {"throw", "null"} }
    \cup { [ kind |-> "object", error |-> e, id |-> Undefined ] : e \in Errors }
    \cup { [ kind |-> "object", error |-> NoError, id |-> i ] :
             i \in {Undefined, "cus_1", "cus_2"} }

NoCustomer == [ kind |-> "none", error |-> NoError, id |-> Undefined ]

SetupIntentResults ==
    { [ kind |-> k, error |-> NoError, client_secret |-> Undefined ] : k \in {"throw", "null"} }
    \cup { [ kind |-> "object", error |-> e, client_secret |-> Undefined ] : e \in Errors }
    \cup { [ kind |-> "object", error |-> NoError, client_secret |-> s ] :
             s \in {Undefined, "seti_1_secret_x", "seti_2_secret_y"} }

\* The handler from its first line to its first await of an upstream call.
SetupIntentEntry(key, r) ==
    IF r.method = "OPTIONS" THEN Return(Preflight)
    ELSE IF r.method # "POST" THEN Return(MethodNotAllowed)
    ELSE IF key = "" THEN Return(ServerConfigurationError)
    ELSE IF r.body.kind = "unparseable" THEN Return(InvalidJSONBody)
    ELSE IF r.body.kind = "null" THEN Throw   \* const { email, userId } = null
    ELSE LET email  == r.body.obj.email
             userId == r.body.obj.userId
         IN  IF Falsy(email) \/ Falsy(userId)
             THEN Return(json({ <<"error", "email and userId are required">> }, 400))
             ELSE Await(stripePost("customers",
                                   { <<"email", email>>,
                                     <<"metadata[supabase_uid]", userId>> }),
                        "await_customer")

\* Mutant of SetupIntentOnCustomer: the customer's error is not checked.
SetupIntentOnCustomer_NoErrorCheck(c) ==
    IF c.kind \in {"throw", "null"} THEN Return(InternalServerError)
    ELSE Await(stripePost("setup_intents",
                          { <<"customer", c.id>>,
                            <<"usage", "off_session">>,
                            <<"automatic_payment_methods[enabled]", "true">> }),
               "await_setup_intent")

\* Resumes with the result of the customer creation.
SetupIntentOnCustomer(c) ==
    IF c.kind \in {"throw", "null"} THEN Return(InternalServerError)
    ELSE IF c.error.present
    THEN Return(json({ <<"error", Coalesce(c.error.message, "Failed to create customer")>> }, 502))
    ELSE Await(stripePost("setup_intents",
                          { <<"customer", c.id>>,
                            <<"usage", "off_session">>,
                            <<"automatic_payment_methods[enabled]", "true">> }),
               "await_setup_intent")

\* Resumes with the result of the setup-intent creation.
SetupIntentOnSetupIntent(c, setupIntent) ==
    IF setupIntent.kind \in {"throw", "null"} THEN Return(InternalServerError)
    ELSE IF setupIntent.error.present
    THEN Return(json({ <<"error", Coalesce(setupIntent.error.message,
                                           "Failed to create setup intent")>> }, 502))
    ELSE Return(json({ <<"clientSecret", setupIntent.client_secret>>,
                       <<"customerId", c.id>> }, 200))

---------------------------------------------------------------------------
\* create-subscription

NoInvoiceSettings == [ present |-> FALSE, default_payment_method |-> Undefined ]

InvoiceSettings ==
    { NoInvoiceSettings }
    \cup { [ present |-> TRUE, default_payment_method |-> d ] :
             d \in {Undefined, "pm_default"} }

LookupResults ==
    { [ kind |-> k, error |-> NoError, invoice_settings |-> NoInvoiceSettings ] :
        k \in {"throw", "null"} }
    \cup { [ kind |-> "object", error |-> e, invoice_settings |-> NoInvoiceSettings ] :
             e \in Errors }
    \cup { [ kind |-> "object", error |-> NoError, invoice_settings |-> s ] :
             s \in InvoiceSettings }

PaymentMethodEntries == { [ id |-> i ] : i \in {Undefined, "pm_1", "pm_2"} }

Listings == UNION { [ 1..n -> PaymentMethodEntries ] : n \in 0..MaxListing }

NoListing == [ present |-> FALSE, list |-> <<>> ]

PaymentMethodsResults ==
    { [ kind |-> k, error |-> NoError, data |-> NoListing ] : k \in {"throw", "null"} }
    \cup { [ kind |-> "object", error |-> e, data |-> NoListing ] :
             e \in {NoError} \cup Errors }
    \cup { [ kind |-> "object", error |-> NoError,
             data |-> [ present |-> TRUE, list |-> l ] ] : l \in Listings }

SubscriptionResults ==
    { [ kind |-> k, error |-> NoError, id |-> Undefined, status |-> Undefined ] :
        k \in {"throw", "null"} }
    \cup { [ kind |-> "object", error |-> e, id |-> Undefined, status |-> Undefined ] :
             e \in Errors }
    \cup { [ kind |-> "object", error |-> NoError, id |-> "sub_1", status |-> s ] :
             s \in {Undefined, "active", "incomplete"} }

\* Mutant of SubscriptionEntry: the credential is checked before the method.
SubscriptionEntry_CredentialFirst(key, r) ==
    IF r.method = "OPTIONS" THEN Return(Preflight)
    ELSE IF key = "" THEN Return(ServerConfigurationError)
    ELSE IF r.method # "POST" THEN Return(MethodNotAllowed)
    ELSE IF r.body.kind = "unparseable" THEN Return(InvalidJSONBody)
    ELSE IF r.body.kind = "null" THEN Throw
    ELSE IF Falsy(r.body.obj.customerId) \/ Falsy(r.body.obj.priceId)
    THEN Return(json({ <<"error", "customerId and priceId are required">> }, 400))
    ELSE Await(stripeGet("customers/" \o r.body.obj.customerId, {}), "await_lookup")

SubscriptionEntry(key, r) ==
    IF r.method = "OPTIONS" THEN Return(Preflight)
    ELSE IF r.method # "POST" THEN Return(MethodNotAllowed)
    ELSE IF key = "" THEN Return(ServerConfigurationError)
    ELSE IF r.body.kind = "unparseable" THEN Return(InvalidJSONBody)
    ELSE IF r.body.kind = "null" THEN Throw   \* const { customerId, priceId } = null
    ELSE LET customerId == r.body.obj.customerId
             priceId    == r.body.obj.priceId
         IN  IF Falsy(customerId) \/ Falsy(priceId)
             THEN Return(json({ <<"error", "customerId and priceId are required">> }, 400))
             ELSE Await(stripeGet("customers/" \o customerId, {}), "await_lookup")

\* customer.invoice_settings?.default_payment_method
DefaultPaymentMethod(c) ==
    IF c.invoice_settings.present
    THEN c.invoice_settings.default_payment_method
    ELSE Undefined

\* Mutant of FirstListed: the last listed payment method is taken.
FirstListed_Last(pms, paymentMethodId) ==
    IF pms.data.present /\ Len(pms.data.list) > 0
    THEN pms.data.list[Len(pms.data.list)].id
    ELSE paymentMethodId

\* pms.data?.length > 0 ? pms.data[0].id : (paymentMethodId unchanged)
FirstListed(pms, paymentMethodId) ==
    IF pms.data.present /\ Len(pms.data.list) > 0
    THEN pms.data.list[1].id
    ELSE paymentMethodId

\* From the second `if (!paymentMethodId)` to the await of the subscription.
SubscriptionCreate(obj, paymentMethodId) ==
    IF Falsy(paymentMethodId)
    THEN Return(json({ <<"error",
            "No payment method found for this customer. Please update your payment method first.">> },
            400))
    ELSE Await(stripePost("subscriptions",
                          { <<"customer", obj.customerId>>,
                            <<"items[0][price]", obj.priceId>>,
                            <<"default_payment_method", paymentMethodId>>,
                            <<"payment_behavior", "default_incomplete">>,
                            <<"expand[]", "latest_invoice.payment_intent">> }),
               "await_subscription")

\* Resumes with the result of the customer lookup.
SubscriptionOnLookup(obj, c) ==
    IF c.kind \in {"throw", "null"} THEN Return(InternalServerError)
    ELSE IF c.error.present
    THEN Return(json({ <<"error", Coalesce(c.error.message, "Customer not found")>> }, 404))
    ELSE LET paymentMethodId == DefaultPaymentMethod(c)
         IN  IF Falsy(paymentMethodId)
             THEN Await(stripeGet("payment_methods",
                                  { <<"customer", obj.customerId>>, <<"type", "card">> }),
                        "await_payment_methods")
             ELSE SubscriptionCreate(obj, paymentMethodId)

\* Mutant of SubscriptionOnPaymentMethods: a listing that came back with an
\* error is asked for again.
SubscriptionOnPaymentMethods_Retry(obj, paymentMethodId, pms) ==
    IF pms.kind \in {"throw", "null"} THEN Return(InternalServerError)
    ELSE IF pms.error.present
    THEN Await(stripeGet("payment_methods",
                         { <<"customer", obj.customerId>>, <<"type", "card">> }),
               "await_payment_methods")
    ELSE SubscriptionCreate(obj, FirstListed(pms, paymentMethodId))

\* Resumes with the result of the payment-method listing; paymentMethodId
\* is the falsy value the lookup left.
SubscriptionOnPaymentMethods(obj, paymentMethodId, pms) ==
    IF pms.kind \in {"throw", "null"} THEN Return(InternalServerError)
    ELSE SubscriptionCreate(obj, FirstListed(pms, paymentMethodId))

\* Resumes with the result of the subscription creation.
SubscriptionOnSubscription(subscription) ==
    IF subscription.kind \in {"throw", "null"} THEN Return(InternalServerError)
    ELSE IF subscription.error.present
    THEN Return(json({ <<"error", Coalesce(subscription.error.message,
                                           "Failed to create subscription")>> }, 502))
    ELSE Return(json({ <<"subscriptionId", subscription.id>>,
                       <<"status", subscription.status>> }, 200))

---------------------------------------------------------------------------
\* create-portal-session

PortalResults ==
    { [ kind |-> k, error |-> NoError, url |-> Undefined ] : k \in {"throw", "null"} }
    \cup { [ kind |-> "object", error |-> e, url |-> Undefined ] : e \in Errors }
    \cup { [ kind |-> "object", error |-> NoError, url |-> u ] :
             u \in {Undefined, "https://billing/s_1"} }

\* Mutant of PortalEntry: the body is parsed and validated before the
\* credential is checked.
PortalEntry_ParseFirst(key, r) ==
    IF r.method = "OPTIONS" THEN Return(Preflight)
    ELSE IF r.method # "POST" THEN Return(MethodNotAllowed)
    ELSE IF r.body.kind = "unparseable" THEN Return(InvalidJSONBody)
    ELSE IF r.body.kind = "null" THEN Throw
    ELSE IF Falsy(r.body.obj.customerId) \/ Falsy(r.body.obj.returnUrl)
    THEN Return(json({ <<"error", "customerId and returnUrl are required">> }, 400))
    ELSE IF key = "" THEN Return(ServerConfigurationError)
    ELSE Await(stripePost("billing_portal/sessions",
                          { <<"customer", r.body.obj.customerId>>,
                            <<"return_url", r.body.obj.returnUrl>> }),
               "await_portal")

PortalEntry(key, r) ==
    IF r.method = "OPTIONS" THEN Return(Preflight)
    ELSE IF r.method # "POST" THEN Return(MethodNotAllowed)
    ELSE IF key = "" THEN Return(ServerConfigurationError)
    ELSE IF r.body.kind = "unparseable" THEN Return(InvalidJSONBody)
    ELSE IF r.body.kind = "null" THEN Throw   \* const { customerId, returnUrl } = null
    ELSE LET customerId == r.body.obj.customerId
             returnUrl  == r.body.obj.returnUrl
         IN  IF Falsy(customerId) \/ Falsy(returnUrl)
             THEN Return(json({ <<"error", "customerId and returnUrl are required">> }, 400))
             ELSE Await(stripePost("billing_portal/sessions",
                                   { <<"customer", customerId>>,
                                     <<"return_url", returnUrl>> }),
                        "await_portal")

PortalOnSession(session) ==
    IF session.kind \in {"throw", "null"} THEN Return(InternalServerError)
    ELSE IF session.error.present
    THEN Return(json({ <<"error", Coalesce(session.error.message,
                                           "Failed to create portal session")>> }, 502))
    ELSE Return(json({ <<"url", session.url>> }, 200))

---------------------------------------------------------------------------
\* send-email

FROM_ADDRESS == "4FORE League <hello@4fore.golf>"

RoundUrl == "https://4fore-league.vercel.app/round.html"

\* The shared HTML shell, abridged to the places it interpolates.
template(heading, body) ==
    "<html><h1>" \o heading \o "</h1><div>" \o body \o "</div></html>"

ctaButton(href, label) ==
    "<p><a href=\"" \o href \o "\">" \o label \o "</a></p>"

NoEmail == [ kind |-> "null", subject |-> Undefined, html |-> Undefined ]

Email(subject, html) == [ kind |-> "object", subject |-> subject, html |-> html ]

\* buildEmail(type, _to, data): kind "throw" when reading data.name raises
\* (data is null), kind "null" for the default branch of the switch.
buildEmail(type, to, data) ==
    IF data.kind = "null"
    THEN [ kind |-> "throw", subject |-> Undefined, html |-> Undefined ]
    ELSE LET name == Coalesce(data.name, "Golfer") IN
      CASE type = "welcome" ->
             Email("Welcome to 4FORE League",
                   template("Welcome, " \o name \o "!",
                            "<p>You're in.</p>"
                            \o ctaButton(RoundUrl, "Start Your First Round")))
        [] type = "password-reset" ->
             Email("Reset your 4FORE League password",
                   template("Reset your password", "<p>Hi " \o name \o ",</p>"))
        [] type = "trial-expiry-7" ->
             Email("Your 4FORE trial ends in 7 days",
                   template("7 days left on your trial",
                            "<p>Hi " \o name \o ",</p>"
                            \o ctaButton(RoundUrl, "Play a Round Today")))
        [] type = "trial-expiry-3" ->
             Email("Your 4FORE trial ends in 3 days",
                   template("3 days left on your trial",
                            "<p>Hi " \o name \o ",</p>"
                            \o ctaButton(RoundUrl, "Make the most of it")))
        [] type = "trial-expiry-1" ->
             Email("Last day of your 4FORE trial",
                   template("Trial ends tomorrow",
                            "<p>Hi " \o name \o ",</p>"
                            \o ctaButton(RoundUrl, "Play one last trial round")))
        [] OTHER -> NoEmail

\* What fetch and res.json() give for the delivery provider: ok is res.ok,
\* the other fields are the parsed body's.
EmailResults ==
    { [ kind |-> k, ok |-> o, error |-> NoError, message |-> Undefined, id |-> Undefined ] :
        k \in {"throw", "null"}, o \in BOOLEAN }
    \cup { [ kind |-> "object", ok |-> TRUE, error |-> NoError, message |-> Undefined,
             id |-> i ] : i \in {Undefined, "msg_1"} }
    \cup { [ kind |-> "object", ok |-> o, error |-> e, message |-> m, id |-> Undefined ] :
             o \in BOOLEAN, e \in Errors, m \in {Undefined, "bad address"} }
    \cup { [ kind |-> "object", ok |-> FALSE, error |-> NoError, message |-> m,
             id |-> Undefined ] : m \in {Undefined, "bad address"} }

\* const { type, to, data = {} } = body
DataOrDefault(data) ==
    IF data.kind = "undefined" THEN [ kind |-> "object", name |-> Undefined ] ELSE data

EmailEntry(key, r) ==
    IF r.method = "OPTIONS" THEN Return(Preflight)
    ELSE IF r.method # "POST" THEN Return(MethodNotAllowed)
    ELSE IF key = "" THEN Return(ServerConfigurationError)
    ELSE IF r.body.kind = "unparseable" THEN Return(InvalidJSONBody)
    ELSE IF r.body.kind = "null" THEN Throw   \* const { type, to, data = {} } = null
    ELSE LET type == r.body.obj.type
             to   == r.body.obj.to
             data == DataOrDefault(r.body.obj.data)
         IN  IF Falsy(type) \/ Falsy(to)
             THEN Return(json({ <<"error", "type and to are required">> }, 400))
             ELSE LET email == buildEmail(type, to, data) IN
                  IF email.kind = "throw" THEN Throw   \* raised outside any try
                  ELSE IF email.kind = "null"
                  THEN Return(json({ <<"error", "Unknown email type: " \o type>> }, 400))
                  ELSE Await([ endpoint |-> "emails", method |-> "POST",
                               params   |-> Stringify({ <<"from", FROM_ADDRESS>>,
                                                        <<"to", to>>,
                                                        <<"subject", email.subject>>,
                                                        <<"html", email.html>> }) ],
                             "await_email")

\* Resumes with the delivery provider's response.
EmailOnResult(res) ==
    IF res.kind \in {"throw", "null"} THEN Return(InternalServerError)
    ELSE IF ~res.ok
    THEN Return(json({ <<"error", Coalesce(res.message, "Failed to send email")>> }, 502))
    ELSE Return(json({ <<"id", res.id>> }, 200))

---------------------------------------------------------------------------
\* Browser-side wrappers (auth.js)

NoWrapperResult == [ kind |-> "none", message |-> Undefined, value |-> {} ]

PendingWrapperResult == [ kind |-> "pending", message |-> Undefined, value |-> {} ]

\* json.<key> of a parsed response body
Property(pairs, key) ==
    IF \E p \in pairs : p[1] = key
    THEN (CHOOSE p \in pairs : p[1] = key)[2]
    ELSE Undefined

\* res.json() in the browser: rejects when the reply is not the handler's
\* JSON envelope (the handler let an exception escape, or sent no body).
WrapperRejects(o, r) == o = "escaped" \/ r.body.isNull

\* createSetupIntent after its fetch resolved
createSetupIntentResult(o, r) ==
    IF WrapperRejects(o, r)
    THEN [ kind |-> "throw", message |-> "SyntaxError", value |-> {} ]
    ELSE IF ~Falsy(Property(r.body.json, "error"))
    THEN [ kind |-> "throw", message |-> Property(r.body.json, "error"), value |-> {} ]
    ELSE [ kind |-> "return", message |-> Undefined, value |-> r.body.json ]

\* sendEmail after its fetch resolved: return res.json()
sendEmailResult(o, r) ==
    IF WrapperRejects(o, r)
    THEN [ kind |-> "throw", message |-> "SyntaxError", value |-> {} ]
    ELSE [ kind |-> "return", message |-> Undefined, value |-> r.body.json ]

---------------------------------------------------------------------------
\* Browser Auth Facade: session helper and navigation guards (auth.js)

\* data.session when nobody is signed in
NoSession == "<null>"

\* What window.sb.auth.getSession() settles to: it rejects, or resolves with
\* { data: { session } }.
SessionResults ==
    { [ kind |-> "rejects", session |-> NoSession ] }
    \cup { [ kind |-> "resolves", session |-> v ] : v \in {NoSession, "sess_1", "sess_2"} }

\* getSession() has not settled yet
NotSettled == [ kind |-> "pending", session |-> NoSession ]

Origin == "https://4fore-league.vercel.app"

\* The pages a guard is called on.
Pages == { [ origin |-> Origin, path |-> "/" \o f ] :
             f \in {"index.html", "login.html", "account.html"} }

\* window.location.href = ref: the relative reference is resolved against
\* the current location (all pages sit at the site root).
AssignHref(loc, ref) == [ origin |-> loc.origin, path |-> "/" \o ref ]

\* A parameter's default value
DefaultParam(arg, d) == IF arg = Undefined THEN d ELSE arg

NoGuardResult == [ kind |-> "none", value |-> Undefined ]

GuardOutcome(loc, assigned, result) ==
    [ location |-> loc, assigned |-> assigned, result |-> result ]

\* Mutant of requireAuth: the session is not returned.
requireAuth_NoReturn(redirectTo, r, loc) ==
    LET target == DefaultParam(redirectTo, "login.html") IN
    IF r.kind = "rejects"
    THEN GuardOutcome(loc, <<>>, [ kind |-> "throw", value |-> Undefined ])
    ELSE IF r.session = NoSession
    THEN GuardOutcome(AssignHref(loc, target), <<target>>,
                      [ kind |-> "return", value |-> Undefined ])
    ELSE GuardOutcome(loc, <<>>, [ kind |-> "return", value |-> Undefined ])

\* requireAuth(redirectTo = 'login.html'), resumed with what getSession
\* settled to, on the page at loc.
requireAuth(redirectTo, r, loc) ==
    LET target == DefaultParam(redirectTo, "login.html") IN
    IF r.kind = "rejects"
    THEN GuardOutcome(loc, <<>>, [ kind |-> "throw", value |-> Undefined ])
    ELSE IF r.session = NoSession
    THEN GuardOutcome(AssignHref(loc, target), <<target>>,
                      [ kind |-> "return", value |-> r.session ])
    ELSE GuardOutcome(loc, <<>>, [ kind |-> "return", value |-> r.session ])

\* redirectIfAuthed(redirectTo = 'index.html'), resumed likewise.
redirectIfAuthed(redirectTo, r, loc) ==
    LET target == DefaultParam(redirectTo, "index.html") IN
    IF r.kind = "rejects"
    THEN GuardOutcome(loc, <<>>, [ kind |-> "throw", value |-> Undefined ])
    ELSE IF r.session # NoSession
    THEN GuardOutcome(AssignHref(loc, target), <<target>>,
                      [ kind |-> "return", value |-> Undefined ])
    ELSE GuardOutcome(loc, <<>>, [ kind |-> "return", value |-> Undefined ])

---------------------------------------------------------------------------
\* The state machine

Keys(k) == {"", k}

Init ==
    /\ STRIPE_SECRET_KEY \in Keys("sk_test_1")
    /\ RESEND_API_KEY \in Keys("re_1")
    /\ handler = "none"
    /\ req = [ method |-> "", body |-> [ kind |-> "unparseable", obj |-> <<>> ] ]
    /\ pc = "idle"
    /\ calls = <<>>
    /\ results = <<>>
    /\ customer = NoCustomer
    /\ outcome = "pending"
    /\ resp = NoResponse
    /\ caller = "direct"
    /\ wrapperResult = NoWrapperResult
    /\ location \in Pages
    /\ navigations = <<>>
    /\ guard = [ name |-> "none", redirectTo |-> Undefined, from |-> location,
                 settled |-> NotSettled ]
    /\ gpc = "idle"
    /\ guardResult = NoGuardResult

Idle == pc \in {"idle", "done"} /\ wrapperResult.kind # "pending"

\* A request reaches handler h.
Arrive(h, r, who) ==
    /\ handler' = h
    /\ req' = r
    /\ pc' = "start"
    /\ calls' = <<>>
    /\ results' = <<>>
    /\ customer' = NoCustomer
    /\ outcome' = "pending"
    /\ resp' = NoResponse
    /\ caller' = who
    /\ wrapperResult' = IF who = "direct" THEN NoWrapperResult ELSE PendingWrapperResult
    /\ UNCHANGED <<STRIPE_SECRET_KEY, RESEND_API_KEY>>
    /\ UNCHANGED authVars

\* Any client sends any request to any of the four functions.
Receive ==
    /\ Idle
    /\ \E h \in Handlers : \E m \in Methods : \E b \in Bodies(h) :
        Arrive(h, [ method |-> m, body |-> b ], "direct")

\* auth.createSetupIntent(email, userId): POSTs JSON.stringify({ email, userId })
CallCreateSetupIntent ==
    /\ Idle
    /\ \E email \in Vals("a@b.com") : \E userId \in Vals("uid_1") :
        Arrive("create-setup-intent",
               [ method |-> "POST",
                 body   |-> [ kind |-> "object",
                              obj  |-> [ email |-> email, userId |-> userId ] ] ],
               "createSetupIntent")

\* auth.sendEmail(type, to, data = {}): POSTs JSON.stringify({ type, to, data })
CallSendEmail ==
    /\ Idle
    /\ \E type \in {Undefined, "unknown-type"} \cup EmailTypes :
       \E to \in {Undefined, "a@b.com"} :
       \E data \in DataValues :
        Arrive("send-email",
               [ method |-> "POST",
                 body   |-> [ kind |-> "object",
                              obj  |-> [ type |-> type, to |-> to,
                                         data |-> DataOrDefault(data) ] ] ],
               "sendEmail")

\* The invocation takes the step s, having resumed with the results rs.
Take(s, rs) ==
    /\ pc' = s.next
    /\ outcome' = CASE s.kind = "return" -> "response"
                    [] s.kind = "throw"  -> "escaped"
                    [] OTHER             -> outcome
    /\ resp' = s.resp
    /\ calls' = IF s.kind = "await" THEN Append(calls, s.call) ELSE calls
    /\ results' = rs
    /\ UNCHANGED <<STRIPE_SECRET_KEY, RESEND_API_KEY, handler, req, caller, wrapperResult>>
    /\ UNCHANGED authVars

SetupIntentStart ==
    /\ pc = "start" /\ handler = "create-setup-intent"
    /\ Take(SetupIntentEntry(STRIPE_SECRET_KEY, req), results)
    /\ UNCHANGED customer

SetupIntentCustomerReturned ==
    /\ pc = "await_customer"
    /\ \E c \in CustomerResults :
        /\ Take(SetupIntentOnCustomer(c), Append(results, c))
        /\ customer' = c

SetupIntentReturned ==
    /\ pc = "await_setup_intent"
    /\ \E si \in SetupIntentResults :
        Take(SetupIntentOnSetupIntent(customer, si), Append(results, si))
    /\ UNCHANGED customer

SubscriptionStart ==
    /\ pc = "start" /\ handler = "create-subscription"
    /\ Take(SubscriptionEntry(STRIPE_SECRET_KEY, req), results)
    /\ UNCHANGED customer

SubscriptionLookupReturned ==
    /\ pc = "await_lookup"
    /\ \E c \in LookupResults :
        Take(SubscriptionOnLookup(req.body.obj, c), Append(results, c))
    /\ UNCHANGED customer

SubscriptionPaymentMethodsReturned ==
    /\ pc = "await_payment_methods"
    /\ \E pms \in PaymentMethodsResults :
        Take(SubscriptionOnPaymentMethods(req.body.obj,
                                          DefaultPaymentMethod(results[Len(results)]),
                                          pms),
             Append(results, pms))
    /\ UNCHANGED customer

SubscriptionReturned ==
    /\ pc = "await_subscription"
    /\ \E s \in SubscriptionResults :
        Take(SubscriptionOnSubscription(s), Append(results, s))
    /\ UNCHANGED customer

PortalStart ==
    /\ pc = "start" /\ handler = "create-portal-session"
    /\ Take(PortalEntry(STRIPE_SECRET_KEY, req), results)
    /\ UNCHANGED customer

PortalReturned ==
    /\ pc = "await_portal"
    /\ \E s \in PortalResults : Take(PortalOnSession(s), Append(results, s))
    /\ UNCHANGED customer

EmailStart ==
    /\ pc = "start" /\ handler = "send-email"
    /\ Take(EmailEntry(RESEND_API_KEY, req), results)
    /\ UNCHANGED customer

EmailReturned ==
    /\ pc = "await_email"
    /\ \E r \in EmailResults : Take(EmailOnResult(r), Append(results, r))
    /\ UNCHANGED customer

\* createSetupIntent resumes after its fetch.
CreateSetupIntentResumes ==
    /\ pc = "done" /\ caller = "createSetupIntent" /\ wrapperResult.kind = "pending"
    /\ wrapperResult' = createSetupIntentResult(outcome, resp)
    /\ UNCHANGED <<STRIPE_SECRET_KEY, RESEND_API_KEY, handler, req, pc, calls, results,
                   customer, outcome, resp, caller>>
    /\ UNCHANGED authVars

\* sendEmail resumes after its fetch.
SendEmailResumes ==
    /\ pc = "done" /\ caller = "sendEmail" /\ wrapperResult.kind = "pending"
    /\ wrapperResult' = sendEmailResult(outcome, resp)
    /\ UNCHANGED <<STRIPE_SECRET_KEY, RESEND_API_KEY, handler, req, pc, calls, results,
                   customer, outcome, resp, caller>>
    /\ UNCHANGED authVars

\* A page calls a guard, which awaits getSession().
CallGuard(name, redirectTo) ==
    /\ guard' = [ name |-> name, redirectTo |-> redirectTo, from |-> location,
                  settled |-> NotSettled ]
    /\ gpc' = "await_session"
    /\ navigations' = <<>>
    /\ guardResult' = [ kind |-> "pending", value |-> Undefined ]
    /\ UNCHANGED location
    /\ UNCHANGED handlerVars

\* The guard resumes with what getSession settled to and runs to its end.
FinishGuard(r, o) ==
    /\ location' = o.location
    /\ navigations' = o.assigned
    /\ guardResult' = o.result
    /\ gpc' = "done"
    /\ guard' = [ guard EXCEPT !.settled = r ]
    /\ UNCHANGED handlerVars

CallRequireAuth ==
    /\ gpc \in {"idle", "done"}
    /\ \E redirectTo \in {Undefined, "signin.html"} : CallGuard("requireAuth", redirectTo)

RequireAuthResumes ==
    /\ gpc = "await_session" /\ guard.name = "requireAuth"
    /\ \E r \in SessionResults :
        FinishGuard(r, requireAuth(guard.redirectTo, r, location))

CallRedirectIfAuthed ==
    /\ gpc \in {"idle", "done"}
    /\ \E redirectTo \in {Undefined, "account.html"} :
        CallGuard("redirectIfAuthed", redirectTo)

RedirectIfAuthedResumes ==
    /\ gpc = "await_session" /\ guard.name = "redirectIfAuthed"
    /\ \E r \in SessionResults :
        FinishGuard(r, redirectIfAuthed(guard.redirectTo, r, location))

Next ==
    \/ Receive
    \/ CallCreateSetupIntent
    \/ CallSendEmail
    \/ SetupIntentStart
    \/ SetupIntentCustomerReturned
    \/ SetupIntentReturned
    \/ SubscriptionStart
    \/ SubscriptionLookupReturned
    \/ SubscriptionPaymentMethodsReturned
    \/ SubscriptionReturned
    \/ PortalStart
    \/ PortalReturned
    \/ EmailStart
    \/ EmailReturned
    \/ CreateSetupIntentResumes
    \/ SendEmailResumes

Spec == Init /\ [][Next]_vars

\* The pages' navigation guards, which share no state with the handlers.
AuthNext ==
    \/ CallRequireAuth
    \/ RequireAuthResumes
    \/ CallRedirectIfAuthed
    \/ RedirectIfAuthedResumes

AuthSpec == Init /\ [][AuthNext]_vars

---------------------------------------------------------------------------
\* Properties

Done == pc = "done"

Responded == Done /\ outcome = "response"

CredentialOf(h) == IF h = "send-email" THEN RESEND_API_KEY ELSE STRIPE_SECRET_KEY

ErrorBody(m) == { <<"error", m>> }

Issued(endpoint) == \E i \in 1..Len(calls) : calls[i].endpoint = endpoint

Param(c, k) == Property(c.params, k)

UpstreamError(r) == r.kind = "object" /\ r.error.present

UpstreamSuccess(r) == r.kind = "object" /\ ~r.error.present

EnvelopeStatuses == {200, 400, 404, 405, 500, 502}

\* C1: every invocation of every handler, whatever the method, the body, the
\* data value and the upstream results, ends with one JSON envelope of a
\* determinate status; no exception escapes the handler.
C1_EveryInvocationEndsInAnEnvelope ==
    Done =>
        /\ outcome = "response"
        /\ resp.status = 204 \/ (resp.status \in EnvelopeStatuses /\ ~resp.body.isNull)

\* C2: whenever an upstream result mapping carries an `error` field, the
\* handler answers 502 (404 for create-subscription's customer lookup) with
\* the upstream error's message when it has one and a fallback string when
\* it has none; never 200 or 400.
C2_UpstreamErrorIsMapped ==
    \A i \in 1..Len(results) :
        (Done /\ UpstreamError(results[i])) =>
            /\ outcome = "response"
            /\ resp.status = IF handler = "create-subscription" /\ i = 1 THEN 404 ELSE 502
            /\ Property(resp.body.json, "error") # Undefined
            /\ results[i].error.message # Undefined
                 => resp.body.json = ErrorBody(results[i].error.message)

\* C3: in create-subscription, after a customer lookup that returned a
\* customer: a default payment method, when set, is the one the subscription
\* is created with and the listing is not called; otherwise the listing is
\* called and, once it returned a mapping, the id of its first entry is used;
\* when neither gives an id the answer is 400 "No payment method found ..."
\* and no subscription is created.
C3_PaymentMethodResolution ==
    (handler = "create-subscription" /\ Len(results) >= 1 /\ UpstreamSuccess(results[1])) =>
        LET s   == results[1].invoice_settings
            dpm == IF s.present THEN s.default_payment_method ELSE Undefined
        IN  IF dpm \notin {Undefined, ""}
            THEN /\ ~Issued("payment_methods")
                 /\ Len(calls) = 2
                 /\ calls[2].endpoint = "subscriptions"
                 /\ Param(calls[2], "default_payment_method") = dpm
            ELSE /\ Len(calls) >= 2
                 /\ calls[2].endpoint = "payment_methods"
                 /\ (Len(results) >= 2 /\ results[2].kind = "object") =>
                      LET d     == results[2].data
                          first == IF d.present /\ Len(d.list) > 0
                                   THEN d.list[1].id ELSE Undefined
                      IN  IF first \notin {Undefined, ""}
                          THEN /\ Len(calls) = 3
                               /\ calls[3].endpoint = "subscriptions"
                               /\ Param(calls[3], "default_payment_method") = first
                          ELSE /\ Responded
                               /\ resp.status = 400
                               /\ resp.body.json = ErrorBody(
                                    "No payment method found for this customer. Please update your payment method first.")
                               /\ ~Issued("subscriptions")

\* C3's case: no default, a listing of two cards, the first one is used.
C3_Witness ==
    /\ handler = "create-subscription"
    /\ Len(results) >= 2 /\ Len(calls) = 3
    /\ results[2].kind = "object" /\ results[2].data.present
    /\ Len(results[2].data.list) >= 2
    /\ results[2].data.list[1].id = "pm_2"
    /\ results[2].data.list[2].id = "pm_1"
    /\ Param(calls[3], "default_payment_method") = "pm_2"

\* C4: create-setup-intent with a valid {email, userId} and a credential
\* calls customer creation first and setup-intent creation second, with the
\* created customer's id; a customer error stops it before the second call;
\* when both succeed the answer is 200 with exactly {clientSecret, customerId}.
C4_SetupIntentSequence ==
    handler = "create-setup-intent" =>
        /\ Len(calls) <= 2
        /\ Len(calls) >= 1 =>
             /\ calls[1].endpoint = "customers"
             /\ Param(calls[1], "email") = req.body.obj.email
             /\ Param(calls[1], "metadata[supabase_uid]") = req.body.obj.userId
        /\ Len(calls) = 2 =>
             /\ calls[2].endpoint = "setup_intents"
             /\ Len(results) >= 1 /\ UpstreamSuccess(results[1])
             /\ results[1].id # Undefined => Param(calls[2], "customer") = results[1].id
        /\ (Len(results) >= 1 /\ UpstreamError(results[1])) =>
             /\ Len(calls) = 1 /\ Done /\ resp.status = 502
        /\ ( /\ Len(results) = 2
             /\ UpstreamSuccess(results[1]) /\ results[1].id # Undefined
             /\ UpstreamSuccess(results[2]) /\ results[2].client_secret # Undefined ) =>
             /\ Responded
             /\ resp.status = 200
             /\ resp.body.json = { <<"clientSecret", results[2].client_secret>>,
                                   <<"customerId", results[1].id>> }

\* C4's case: both calls made and answered, 200 with the two fields.
C4_Witness ==
    /\ handler = "create-setup-intent" /\ Done
    /\ Len(calls) = 2 /\ Len(results) = 2
    /\ resp.status = 200
    /\ resp.body.json = { <<"clientSecret", "seti_1_secret_x">>, <<"customerId", "cus_1">> }

\* C5: when an upstream call raises a transport-level exception the answer is
\* 500 with body exactly {"error":"Internal server error"}, and that call is
\* the invocation's last.
C5_TransportExceptionIs500 ==
    \A i \in 1..Len(results) :
        results[i].kind = "throw" =>
            /\ i = Len(results) /\ Len(calls) = i
            /\ Responded
            /\ resp.status = 500
            /\ resp.body.json = { <<"error", "Internal server error">> }

\* C5's case: the third upstream call of create-subscription raised.
C5_Witness ==
    /\ handler = "create-subscription" /\ Done
    /\ Len(results) = 3 /\ results[3].kind = "throw"
    /\ resp.status = 500

LacksRequired(h, b) ==
    \/ b.kind \in {"null", "primitive"}
    \/ /\ b.kind = "object"
       /\ CASE h = "create-setup-intent" ->
                 b.obj.email = Undefined \/ b.obj.userId = Undefined
            [] h = "create-subscription" ->
                 b.obj.customerId = Undefined \/ b.obj.priceId = Undefined
            [] h = "create-portal-session" ->
                 b.obj.customerId = Undefined \/ b.obj.returnUrl = Undefined
            [] h = "send-email" ->
                 b.obj.type = Undefined \/ b.obj.to = Undefined
            [] OTHER -> FALSE

RequiredMessage(h) ==
    CASE h = "create-setup-intent"   -> "email and userId are required"
      [] h = "create-subscription"   -> "customerId and priceId are required"
      [] h = "create-portal-session" -> "customerId and returnUrl are required"
      [] OTHER                       -> "type and to are required"

\* C6: a POST (credential configured) whose decoded body lacks a required
\* field is answered 400 naming the required fields, one whose body is not
\* parseable JSON is answered 400 "Invalid JSON body"; no upstream call.
C6_BadBodyIs400 ==
    (Done /\ req.method = "POST" /\ CredentialOf(handler) # "") =>
        /\ req.body.kind = "unparseable" =>
             /\ outcome = "response" /\ resp.status = 400
             /\ resp.body.json = ErrorBody("Invalid JSON body")
             /\ calls = <<>>
        /\ (req.body.kind # "unparseable" /\ LacksRequired(handler, req.body)) =>
             /\ outcome = "response" /\ resp.status = 400
             /\ resp.body.json = ErrorBody(RequiredMessage(handler))
             /\ calls = <<>>

\* C7: a POST received while the credential is absent is answered 500
\* "Server configuration error" whatever the body, with no upstream call.
C7_MissingCredentialIs500 ==
    (Done /\ req.method = "POST" /\ CredentialOf(handler) = "") =>
        /\ outcome = "response"
        /\ resp.status = 500
        /\ resp.body.json = { <<"error", "Server configuration error">> }
        /\ calls = <<>>

\* C7's case: no credential and a body that does not parse.
C7_Witness ==
    /\ Done /\ handler = "create-portal-session"
    /\ req.method = "POST" /\ STRIPE_SECRET_KEY = ""
    /\ req.body.kind = "unparseable"
    /\ resp.status = 500

\* C8: send-email (POST, credential configured, type and to given): a type
\* outside the five templates is answered 400 naming the type and the
\* provider is not called; a known type is answered, and with {id} at 200
\* when the provider accepted the message and returned an id.
C8_UnknownTypeIs400 ==
    ( /\ Done /\ handler = "send-email" /\ req.method = "POST" /\ RESEND_API_KEY # ""
      /\ req.body.kind = "object"
      /\ ~Falsy(req.body.obj.type) /\ ~Falsy(req.body.obj.to) ) =>
        /\ req.body.obj.type \notin EmailTypes =>
             /\ outcome = "response" /\ resp.status = 400
             /\ resp.body.json = ErrorBody("Unknown email type: " \o req.body.obj.type)
             /\ calls = <<>>
        /\ req.body.obj.type \in EmailTypes =>
             /\ outcome = "response"
             /\ ( /\ Len(results) = 1 /\ results[1].kind = "object" /\ results[1].ok
                  /\ results[1].id # Undefined ) =>
                  /\ resp.status = 200
                  /\ resp.body.json = { <<"id", results[1].id>> }

\* C9: a browser wrapper that got a handler response whose body carries an
\* `error` field throws instead of returning the body.
C9_WrapperThrowsOnError ==
    ( /\ wrapperResult.kind \in {"throw", "return"}
      /\ outcome = "response"
      /\ Property(resp.body.json, "error") # Undefined ) =>
        wrapperResult.kind = "throw"

\* C10: an OPTIONS request is answered 204 with no body and the fixed CORS
\* headers, whatever the payload and the credential, with no upstream call.
C10_PreflightIs204 ==
    (Done /\ req.method = "OPTIONS") =>
        /\ outcome = "response"
        /\ resp.status = 204
        /\ resp.body.isNull
        /\ resp.headers =
             { <<"Access-Control-Allow-Origin", "*">>,
               <<"Access-Control-Allow-Headers",
                 "authorization, x-client-info, apikey, content-type">>,
               <<"Access-Control-Allow-Methods", "POST, OPTIONS">> }
        /\ calls = <<>>

\* C10's case: a pre-flight to send-email with a payload and no credential.
C10_Witness ==
    /\ Done /\ handler = "send-email"
    /\ req.method = "OPTIONS" /\ RESEND_API_KEY = ""
    /\ req.body.kind = "object" /\ req.body.obj.type = "welcome"
    /\ resp.status = 204

\* C11: a request whose method is neither POST nor OPTIONS is answered 405
\* with body exactly {"error":"Method not allowed"}, whatever the body and
\* whether or not the credential is configured, with no upstream call.
C11_OtherMethodIs405 ==
    (Done /\ req.method \notin {"POST", "OPTIONS"}) =>
        /\ outcome = "response"
        /\ resp.status = 405
        /\ ~resp.body.isNull
        /\ resp.body.json = { <<"error", "Method not allowed">> }
        /\ calls = <<>>

\* C11's case: a GET to create-subscription with no credential and a JSON
\* null body.
C11_Witness ==
    /\ Done /\ handler = "create-subscription"
    /\ req.method = "GET" /\ STRIPE_SECRET_KEY = ""
    /\ req.body.kind = "null"
    /\ resp.status = 405

\* C12: requireAuth, once the session is resolved, assigns the login target
\* to the location if and only if the session is absent, and returns the
\* resolved session either way; redirectIfAuthed assigns the default target
\* if and only if a session is present and otherwise leaves the location as
\* it was.
C12_GuardsRedirect ==
    (gpc = "done" /\ guard.settled.kind = "resolves") =>
        LET session == guard.settled.session
            absent  == session = "<null>"
            given   == guard.redirectTo # "<undefined>"
        IN  /\ guard.name = "requireAuth" =>
                 LET target == IF given THEN guard.redirectTo ELSE "login.html" IN
                 /\ absent <=> navigations # <<>>
                 /\ absent => /\ navigations = <<target>>
                              /\ location = [ origin |-> guard.from.origin,
                                              path   |-> "/" \o target ]
                 /\ ~absent => location = guard.from
                 /\ guardResult = [ kind |-> "return", value |-> session ]
            /\ guard.name = "redirectIfAuthed" =>
                 LET target == IF given THEN guard.redirectTo ELSE "index.html" IN
                 /\ ~absent <=> navigations # <<>>
                 /\ ~absent => /\ navigations = <<target>>
                               /\ location = [ origin |-> guard.from.origin,
                                               path   |-> "/" \o target ]
                 /\ absent => location = guard.from
                 /\ guardResult.kind = "return"

\* C12's case: requireAuth on the account page with nobody signed in sent
\* the page to login.html and returned the (null) session.
C12_Witness ==
    /\ gpc = "done" /\ guard.name = "requireAuth"
    /\ guard.settled = [ kind |-> "resolves", session |-> "<null>" ]
    /\ guard.from.path = "/account.html"
    /\ location.path = "/login.html"
    /\ navigations = <<"login.html">>
    /\ guardResult = [ kind |-> "return", value |-> "<null>" ]

\* C13: within one invocation no upstream endpoint is called twice, a call
\* is issued only when every earlier call has returned, and the calls number
\* at most 2 for create-setup-intent, 3 for create-subscription and 1 for
\* create-portal-session and send-email, whatever the upstream returns.
C13_NoRetryNoFanOut ==
    /\ \A i, j \in 1..Len(calls) :
         i # j => calls[i].endpoint # calls[j].endpoint
    /\ Len(results) <= Len(calls)
    /\ Len(calls) <= Len(results) + 1
    /\ Done => Len(calls) = Len(results)
    /\ Len(calls) <= CASE handler = "create-setup-intent"   -> 2
                       [] handler = "create-subscription"   -> 3
                       [] handler = "create-portal-session" -> 1
                       [] handler = "send-email"            -> 1
                       [] OTHER                             -> 0

\* C13's case: create-subscription made its three calls, one after the
\* other, and the last one, the subscription creation, raised.
C13_Witness ==
    /\ Done /\ handler = "create-subscription"
    /\ Len(calls) = 3 /\ Len(results) = 3
    /\ calls[1].endpoint = "customers/cus_9"
    /\ calls[2].endpoint = "payment_methods"
    /\ calls[3].endpoint = "subscriptions"
    /\ results[3].kind = "throw"

====
